---- MODULE Spec2Model ----
(***************************************************************************)
(* Model of map_parser.py: parse_map_file streams the lines of a linker    *)
(* map file, finds the .bss section header, collects the symbols of the    *)
(* section and derives the padding between consecutive symbols.            *)
(*                                                                         *)
(* Lines are strings; the regular expressions of the parser are operators  *)
(* that scan the characters of a line the way the expression matches them. *)
(***************************************************************************)
EXTENDS Integers, Sequences, FiniteSets, TLC

(***************************************************************************)
(* Characters and character classes of Python's re module (ASCII part).    *)
(***************************************************************************)
\* s[i:i+1]: the character at position i, empty outside the string
Ch(s, i) == IF 1 <= i /\ i <= Len(s) THEN SubSeq(s, i, i) ELSE ""

LowerAlphabet == "abcdefghijklmnopqrstuvwxyz"
UpperAlphabet == "ABCDEFGHIJKLMNOPQRSTUVWXYZ"
DigitAlphabet == "0123456789"
HexAlphabet == "0123456789abcdef"

CharsOf(s) == {Ch(s, i) : i \in 1..Len(s)}

Letters == CharsOf(LowerAlphabet) \cup CharsOf(UpperAlphabet)
Digits == CharsOf(DigitAlphabet)
\* \s
WhiteSpace == {" ", "\t"}
\* [0-9a-fA-F]
HexChars == Digits \cup CharsOf("abcdefABCDEF")
\* \w
WordChars == Letters \cup Digits \cup {"_"}
\* [a-zA-Z_]
NameStartChars == Letters \cup {"_"}
\* [a-zA-Z0-9_$.@*]
NameChars == Letters \cup Digits \cup {"_", "$", ".", "@", "*"}

\* str.lower() on one character, as re.IGNORECASE folds it
LowerChar(c) ==
    IF c \in CharsOf(UpperAlphabet)
    THEN Ch(LowerAlphabet, CHOOSE i \in 1..26 : Ch(UpperAlphabet, i) = c)
    ELSE c

RECURSIVE Lower(_)
Lower(s) == IF s = "" THEN "" ELSE LowerChar(Head(s)) \o Lower(Tail(s))

\* first index >= i whose character is not in cls (Len(s)+1 if none): cls+ / cls*
RECURSIVE Span(_, _, _)
Span(s, i, cls) ==
    IF i <= Len(s) /\ Ch(s, i) \in cls THEN Span(s, i + 1, cls) ELSE i

\* first index >= i whose character is whitespace (Len(s)+1 if none): \S+
RECURSIVE SpanNonSpace(_, _)
SpanNonSpace(s, i) ==
    IF i <= Len(s) /\ Ch(s, i) \notin WhiteSpace THEN SpanNonSpace(s, i + 1) ELSE i

\* last index <= i whose character is not whitespace (0 if none)
RECURSIVE LastNonSpace(_, _)
LastNonSpace(s, i) ==
    IF i >= 1 /\ Ch(s, i) \in WhiteSpace THEN LastNonSpace(s, i - 1) ELSE i

\* str.strip()
strip(s) ==
    LET first == Span(s, 1, WhiteSpace)
        last == LastNonSpace(s, Len(s))
    IN IF first > last THEN "" ELSE SubSeq(s, first, last)

\* s[i:].startswith(p)
StartsWithAt(s, i, p) ==
    /\ i >= 1
    /\ i + Len(p) - 1 <= Len(s)
    /\ SubSeq(s, i, i + Len(p) - 1) = p

\* str.endswith(p)
endswith(s, p) == Len(p) <= Len(s) /\ SubSeq(s, Len(s) - Len(p) + 1, Len(s)) = p

\* p in s
Contains(s, p) == \E i \in 1..Len(s) : StartsWithAt(s, i, p)

\* int(s, 16) for a non-empty string of hexadecimal digits
HexDigit(c) == (CHOOSE i \in 1..16 : Ch(HexAlphabet, i) = LowerChar(c)) - 1

RECURSIVE HexVal(_)
HexVal(s) ==
    IF s = "" THEN 0
    ELSE 16 * HexVal(SubSeq(s, 1, Len(s) - 1)) + HexDigit(Ch(s, Len(s)))

\* [a-zA-Z_][a-zA-Z0-9_$.@*]* covering the whole of s
IsName(s) ==
    /\ s # ""
    /\ Head(s) \in NameStartChars
    /\ Span(s, 2, NameChars) = Len(s) + 1

(***************************************************************************)
(* The regular expressions of parse_map_file.  A match is a record with    *)
(* ok = TRUE and the groups the code reads; NoMatch otherwise.             *)
(***************************************************************************)
NoMatch == [ok |-> FALSE]

\* The common prefix ^\s*H+\s+H+\s+(H+)\s+\S+\s+ of the two section-header
\* patterns: the position of the section name and the size group.
HeaderPrefix(s) ==
    LET a1 == Span(s, 1, WhiteSpace)
        e1 == Span(s, a1, HexChars)
        a2 == Span(s, e1, WhiteSpace)
        e2 == Span(s, a2, HexChars)
        a3 == Span(s, e2, WhiteSpace)
        e3 == Span(s, a3, HexChars)
        a4 == Span(s, e3, WhiteSpace)
        e4 == SpanNonSpace(s, a4)
        a5 == Span(s, e4, WhiteSpace)
    IN IF e1 > a1 /\ a2 > e1 /\ e2 > a2 /\ a3 > e2 /\ e3 > a3 /\ a4 > e3
          /\ e4 > a4 /\ a5 > e4
       THEN [ok |-> TRUE, size |-> SubSeq(s, a3, e3 - 1), name |-> a5]
       ELSE NoMatch

\* ^\s*[0-9a-fA-F]+\s+[0-9a-fA-F]+\s+([0-9a-fA-F]+)\s+\S+\s+\.bss\s*$
bss_header_pattern(s) ==
    LET p == HeaderPrefix(s)
    IN IF p.ok /\ StartsWithAt(s, p.name, ".bss")
          /\ Span(s, p.name + 4, WhiteSpace) = Len(s) + 1
       THEN [ok |-> TRUE, group1 |-> p.size]
       ELSE NoMatch

\* the alternatives of other_section_header_pattern after the literal dot;
\* the dot of ARM.exidx is unescaped and matches any character
OtherSectionNames == {"text", "data", "rodata", "stack", "heap", "common", "debug"}

MatchesArmExidx(t) ==
    /\ Len(t) = 9
    /\ Lower(SubSeq(t, 1, 3)) = "arm"
    /\ Lower(SubSeq(t, 5, 9)) = "exidx"

\* ^\s*H+\s+H+\s+(H+)\s+\S+\s+\.(text|data|rodata|stack|heap|common|DEBUG|ARM.exidx)\s*$
\* with re.IGNORECASE
other_section_header_pattern(s) ==
    LET p == HeaderPrefix(s)
        last == LastNonSpace(s, Len(s))
        t == IF p.ok /\ p.name + 1 <= last THEN SubSeq(s, p.name + 1, last) ELSE ""
    IN /\ p.ok
       /\ StartsWithAt(s, p.name, ".")
       /\ Lower(t) \in OtherSectionNames \/ MatchesArmExidx(t)

EbssNames == <<"_ebss", "_end", "__bss_end__", "common">>

\* ^\s*H+\s+H+\s+\S+\s+\S+\s+(_ebss|_end|__bss_end__|COMMON)\b with re.IGNORECASE
ebss_pattern(s) ==
    LET a1 == Span(s, 1, WhiteSpace)
        e1 == Span(s, a1, HexChars)
        a2 == Span(s, e1, WhiteSpace)
        e2 == Span(s, a2, HexChars)
        a3 == Span(s, e2, WhiteSpace)
        e3 == SpanNonSpace(s, a3)
        a4 == Span(s, e3, WhiteSpace)
        e4 == SpanNonSpace(s, a4)
        a5 == Span(s, e4, WhiteSpace)
    IN /\ e1 > a1 /\ a2 > e1 /\ e2 > a2 /\ a3 > e2 /\ e3 > a3 /\ a4 > e3
       /\ e4 > a4 /\ a5 > e4
       /\ \E n \in 1..Len(EbssNames) :
             LET m == EbssNames[n]
                 after == a5 + Len(m)
             IN /\ after - 1 <= Len(s)
                /\ Lower(SubSeq(s, a5, after - 1)) = m
                \* \b: the name ends in a word character
                /\ after > Len(s) \/ Ch(s, after) \notin WordChars

\* re.search(r'\.\w+\s+', s)
DottedTagSearch(s) ==
    \E i \in 1..Len(s) :
        /\ Ch(s, i) = "."
        /\ LET j == Span(s, i + 1, WordChars)
           IN j > i + 1 /\ j <= Len(s) /\ Ch(s, j) \in WhiteSpace

\* re.search(r'\.bss', s)
BssTagSearch(s) == Contains(s, ".bss")

\* ^\s*(H+)\s+(H+)\s+(H+)\s+(H+)\s*(.*)$
line_parser_pattern(s) ==
    LET a1 == Span(s, 1, WhiteSpace)
        e1 == Span(s, a1, HexChars)
        a2 == Span(s, e1, WhiteSpace)
        e2 == Span(s, a2, HexChars)
        a3 == Span(s, e2, WhiteSpace)
        e3 == Span(s, a3, HexChars)
        a4 == Span(s, e3, WhiteSpace)
        e4 == Span(s, a4, HexChars)
        a5 == Span(s, e4, WhiteSpace)
    IN IF e1 > a1 /\ a2 > e1 /\ e2 > a2 /\ a3 > e2 /\ e3 > a3 /\ a4 > e3
          /\ e4 > a4
       THEN [ok |-> TRUE,
             group1 |-> SubSeq(s, a1, e1 - 1),
             group3 |-> SubSeq(s, a3, e3 - 1),
             group5 |-> IF a5 > Len(s) THEN "" ELSE SubSeq(s, a5, Len(s))]
       ELSE NoMatch

\* the positions k at which \s*:\s*\( matches, with the index of the "("
ColonParenAt(s, k) ==
    LET c == Span(s, k, WhiteSpace)
        q == Span(s, c + 1, WhiteSpace)
    IN IF c <= Len(s) /\ Ch(s, c) = ":" /\ q <= Len(s) /\ Ch(s, q) = "("
       THEN q ELSE 0

\* ^(.*?)\s*:\s*\((.*?)\)$ : the lazy first group ends at the least position
\* from which the rest matches; the second group runs to the final ")"
obj_file_and_section_content_pattern(s) ==
    LET starts == {k \in 1..Len(s) : ColonParenAt(s, k) # 0
                                      /\ ColonParenAt(s, k) < Len(s)}
    IN IF s # "" /\ Ch(s, Len(s)) = ")" /\ starts # {}
       THEN LET k == CHOOSE x \in starts : \A y \in starts : x <= y
                q == ColonParenAt(s, k)
            IN [ok |-> TRUE,
                group1 |-> IF k = 1 THEN "" ELSE SubSeq(s, 1, k - 1),
                group2 |-> IF q + 1 > Len(s) - 1 THEN ""
                           ELSE SubSeq(s, q + 1, Len(s) - 1)]
       ELSE NoMatch

\* the name group of \.bss\.?([a-zA-Z_][a-zA-Z0-9_$.@*]*)$ tried at position p
SymbolInSectionAt(s, p) ==
    LET r == p + 4
    IN IF ~StartsWithAt(s, p, ".bss") \/ r > Len(s) THEN ""
       ELSE IF Ch(s, r) = "." /\ r + 1 <= Len(s) /\ IsName(SubSeq(s, r + 1, Len(s)))
            THEN SubSeq(s, r + 1, Len(s))
       ELSE IF IsName(SubSeq(s, r, Len(s))) THEN SubSeq(s, r, Len(s))
       ELSE ""

\* symbol_in_section_pattern.search(s): the leftmost position that matches
symbol_in_section_pattern(s) ==
    LET starts == {p \in 1..Len(s) : SymbolInSectionAt(s, p) # ""}
    IN IF starts = {} THEN NoMatch
       ELSE [ok |-> TRUE,
             group1 |-> SymbolInSectionAt(s, CHOOSE x \in starts : \A y \in starts : x <= y)]

\* ^\s*([a-zA-Z_][a-zA-Z0-9_$.@*]*)\s*$
plain_symbol_pattern(s) ==
    IF IsName(strip(s)) THEN [ok |-> TRUE, group1 |-> strip(s)] ELSE NoMatch

ObjectFileExtensions == {".o", ".obj", ".a", ".lib", ".elf", ".s"}

\* any(path.endswith(ext) for ext in ['.o', '.obj', '.a', '.lib', '.elf', '.s'])
IsObjectFilePath(path) == \E ext \in ObjectFileExtensions : endswith(path, ext)

(***************************************************************************)
(* The input.  A map file is a sequence of lines; the parser reads it one  *)
(* line at a time and the file may end after any line.  MapLines are the   *)
(* lines a file is made of here: the lines of the documented scenarios     *)
(* (with addresses short enough for TLC's 32-bit integers), one line per   *)
(* exit condition, and lines that differ from them in one respect.         *)
(***************************************************************************)
MaxLines == 3

BlankLine == "   "
BssHeaderLine == "da7a0000 da7a0000 7480 8 .bss"
EmptyBssHeaderLine == "20 20 0 4 .bss"
ObjectSymbolLine == "100 100 4 4 build/obj/app/foo.o:(.bss.G_x)"
PlainSymbolLine == "108 108 8 4 G_y"
EchoSymbolLine == "104 104 4 4 G_x"
DebugLine == "d000 d000 10 4 DEBUG"
TextHeaderLine == "c0de c0de 2c346 8 .text"
EbssLine == "110 110 0 1 _ebss"
DataObjectLine == "110 110 4 4 build/obj/app/bar.o:(.data.G_d)"
DataTagLine == ".data.G_d 110 4"
BssArtifactLine == "104 104 0 1 _bss"
ZeroSizeLine == "104 104 0 1 G_z"
SdkSymbolLine == "102 102 8 4 build/obj/sdk/lib.a:(.bssG_w)"
InternalSymbolLine == "10c 10c 2 1 <internal>:(.bss.G_v)"

MapLines ==
    {BlankLine, BssHeaderLine, EmptyBssHeaderLine, ObjectSymbolLine,
     PlainSymbolLine, EchoSymbolLine, DebugLine, TextHeaderLine, EbssLine,
     DataObjectLine, DataTagLine, BssArtifactLine, ZeroSizeLine,
     SdkSymbolLine, InternalSymbolLine}

(***************************************************************************)
(* State of one call of parse_map_file, and of main around it.             *)
(***************************************************************************)
VARIABLES
    lines_read,                  \* the lines the for loop has taken from f
    pc,                          \* where the program stands: "open", "scan",
                                 \* "sort", "pad", "done" (parse_map_file has
                                 \* returned), "widths", "rows" (print_symbols),
                                 \* "end", "exited" (sys.exit), "crashed"
    total_bss_size,
    bss_symbols,
    in_bss_section,
    current_object_file_context,
    added_symbols_set,
    total_padding,
    previous_end,
    k,                           \* position of the padding loop in bss_symbols
    exception,                   \* the exception raised in the try block, "" if none
    stdout,                      \* what has been printed, one record per print
    stderr,
    exit_status,                 \* <<>> while the process runs, <<n>> once it ended
    min_size,                    \* args.min
    with_sdk,                    \* args.sdk
    report,                      \* the counters of print_symbols, <<>> before
    run,                         \* 1 in the first call of parse_map_file, 2 in a second
    first_result                 \* <<>>, or the file and the result of the first call

main_vars == <<exception, stdout, stderr, exit_status, min_size, with_sdk, report>>

rerun_vars == <<run, first_result>>

vars == <<lines_read, pc, total_bss_size, bss_symbols, in_bss_section,
          current_object_file_context, added_symbols_set, total_padding,
          previous_end, k, main_vars, rerun_vars>>

\* previous_end = None
None == -1

\* the locals of parse_map_file before the file is opened
InitLocals ==
    /\ lines_read = <<>>
    /\ pc = "open"
    /\ total_bss_size = 0
    /\ bss_symbols = <<>>
    /\ in_bss_section = FALSE
    /\ current_object_file_context = "unknown"
    /\ added_symbols_set = {}
    /\ total_padding = 0
    /\ previous_end = None
    /\ k = 1

\* main has parsed its arguments (the defaults of arg_parse stand until the
\* options are read) and calls parse_map_file
Init ==
    /\ InitLocals
    /\ exception = ""
    /\ stdout = <<>>
    /\ stderr = <<>>
    /\ exit_status = <<>>
    /\ min_size = 0
    /\ with_sdk = FALSE
    /\ report = <<>>
    /\ run = 1
    /\ first_result = <<>>

\* with open(map_file_path, 'r') as f
OpenFile ==
    /\ pc = "open"
    /\ pc' = "scan"
    /\ UNCHANGED <<lines_read, total_bss_size, bss_symbols, in_bss_section,
                   current_object_file_context, added_symbols_set,
                   total_padding, previous_end, k, main_vars, rerun_vars>>

\* for line in f: the loop takes one more line; a second call reads the
\* lines of the same file again
TakeLine(line) ==
    /\ pc = "scan"
    /\ Len(lines_read) < MaxLines
    /\ IF run = 1 THEN TRUE
       ELSE IF Len(lines_read) < Len(first_result[1].lines)
            THEN line = first_result[1].lines[Len(lines_read) + 1]
            ELSE FALSE
    /\ lines_read' = Append(lines_read, line)
    /\ UNCHANGED <<main_vars, rerun_vars>>

\* if not stripped_line: continue
SkipEmptyLine(line) ==
    /\ TakeLine(line)
    /\ strip(line) = ""
    /\ UNCHANGED <<pc, total_bss_size, bss_symbols, in_bss_section,
                   current_object_file_context, added_symbols_set,
                   total_padding, previous_end, k>>

\* a variant of SearchHeader that takes any address/size record for the header
SearchHeader_AnyRecord(line) ==
    /\ TakeLine(line)
    /\ strip(line) # ""
    /\ ~in_bss_section
    /\ LET match == line_parser_pattern(strip(line))
       IN IF match.ok
          THEN /\ total_bss_size' = HexVal(match.group3)
               /\ in_bss_section' = TRUE
          ELSE UNCHANGED <<total_bss_size, in_bss_section>>
    /\ UNCHANGED <<pc, bss_symbols, current_object_file_context,
                   added_symbols_set, total_padding, previous_end, k>>

\* a variant of SearchHeader that tests every line, inside BSS too
SearchHeader_Ungated(line) ==
    /\ TakeLine(line)
    /\ strip(line) # ""
    /\ LET match == bss_header_pattern(strip(line))
       IN /\ match.ok
          /\ total_bss_size' = HexVal(match.group1)
          /\ in_bss_section' = TRUE
    /\ UNCHANGED <<pc, bss_symbols, current_object_file_context,
                   added_symbols_set, total_padding, previous_end, k>>

\* if not in_bss_section: look for the .bss header
SearchHeader(line) ==
    /\ TakeLine(line)
    /\ strip(line) # ""
    /\ ~in_bss_section
    /\ LET match == bss_header_pattern(strip(line))
       IN IF match.ok
          THEN /\ total_bss_size' = HexVal(match.group1)
               /\ in_bss_section' = TRUE
          ELSE UNCHANGED <<total_bss_size, in_bss_section>>
    /\ UNCHANGED <<pc, bss_symbols, current_object_file_context,
                   added_symbols_set, total_padding, previous_end, k>>

\* 1. Standard section header check
ExitCondition1(stripped_line) == other_section_header_pattern(stripped_line)

\* 2. Check for the _ebss marker
ExitCondition2(stripped_line) ==
    ebss_pattern(stripped_line) \/ Contains(stripped_line, "_ebss")

\* 3. Additional check for sections by name
ExitCondition3(stripped_line) ==
    DottedTagSearch(stripped_line) /\ ~BssTagSearch(stripped_line)

LeavesBss(stripped_line) ==
    \/ ExitCondition1(stripped_line)
    \/ ExitCondition2(stripped_line)
    \/ ExitCondition3(stripped_line)

\* a variant of ExitSection that goes on to the next line instead of breaking
ExitSection_Continue(line) ==
    /\ TakeLine(line)
    /\ strip(line) # ""
    /\ in_bss_section
    /\ LeavesBss(strip(line))
    /\ in_bss_section' = FALSE
    /\ UNCHANGED <<pc, total_bss_size, bss_symbols, current_object_file_context,
                   added_symbols_set, total_padding, previous_end, k>>

\* in_bss_section = False; break
ExitSection(line) ==
    /\ TakeLine(line)
    /\ strip(line) # ""
    /\ in_bss_section
    /\ LeavesBss(strip(line))
    /\ in_bss_section' = FALSE
    /\ pc' = "sort"
    /\ UNCHANGED <<total_bss_size, bss_symbols, current_object_file_context,
                   added_symbols_set, total_padding, previous_end, k>>

(***************************************************************************)
(* Parsing of one line inside the .bss section.  None and the empty string *)
(* are both false in the tests the code makes on symbol_name and           *)
(* object_file_for_current_symbol, and no pattern yields an empty name:    *)
(* "" stands for None.                                                     *)
(***************************************************************************)
\* a variant of NewContext that takes the path of every object-file line
NewContext_AnyPath(remainder_str, context) ==
    LET obj_sec_content_match == obj_file_and_section_content_pattern(remainder_str)
    IN IF obj_sec_content_match.ok
       THEN strip(obj_sec_content_match.group1)
       ELSE context

\* the context after the line: updated only by an object-file line whose
\* path ends with one of the object file extensions
NewContext(remainder_str, context) ==
    LET obj_sec_content_match == obj_file_and_section_content_pattern(remainder_str)
    IN IF obj_sec_content_match.ok
          /\ IsObjectFilePath(strip(obj_sec_content_match.group1))
       THEN strip(obj_sec_content_match.group1)
       ELSE context

\* symbol_name after the two attempts to find one
SymbolName(remainder_str) ==
    LET obj_sec_content_match == obj_file_and_section_content_pattern(remainder_str)
    IN IF obj_sec_content_match.ok
       THEN LET sym_in_sec_match ==
                    symbol_in_section_pattern(strip(obj_sec_content_match.group2))
            IN IF sym_in_sec_match.ok THEN sym_in_sec_match.group1 ELSE ""
       ELSE LET plain_sym_match == plain_symbol_pattern(remainder_str)
            IN IF plain_sym_match.ok THEN plain_sym_match.group1 ELSE ""

\* object_file_for_current_symbol after the two attempts
ObjectFileForCurrentSymbol(remainder_str, context) ==
    IF obj_file_and_section_content_pattern(remainder_str).ok
    THEN NewContext(remainder_str, context)
    ELSE IF plain_symbol_pattern(remainder_str).ok THEN context ELSE ""

\* a variant of is_linker_artifact that knows _ebss only
is_linker_artifact_EbssOnly(symbol_size_dec, symbol_name) ==
    symbol_size_dec = 0 /\ symbol_name = "_ebss"

is_linker_artifact(symbol_size_dec, symbol_name) ==
    symbol_size_dec = 0 /\ (symbol_name = "_bss" \/ symbol_name = "_ebss")

final_object_file(object_file_for_current_symbol) ==
    IF object_file_for_current_symbol # "" THEN object_file_for_current_symbol
    ELSE "unknown"

symbol_key(symbol_name, object_file, symbol_size_dec) ==
    <<symbol_name, object_file, symbol_size_dec>>

\* a variant of RecordKey that forgets the key
RecordKey_Forgotten(added, key) == added

\* added_symbols_set.add(symbol_key)
RecordKey(added, key) == added \cup {key}

\* the dictionary appended to bss_symbols; padding_before is added later
NewSymbol(line_match, symbol_name, object_file) ==
    [name |-> symbol_name,
     size_hex |-> line_match.group3,
     size_dec |-> HexVal(line_match.group3),
     vma |-> HexVal(line_match.group1),
     object_file |-> object_file]

\* Now, parse lines within the .bss section
ParseLine(line) ==
    /\ TakeLine(line)
    /\ strip(line) # ""
    /\ in_bss_section
    /\ ~LeavesBss(strip(line))
    /\ LET line_match == line_parser_pattern(strip(line))
       IN IF ~line_match.ok
          THEN UNCHANGED <<current_object_file_context, bss_symbols, added_symbols_set>>
          ELSE LET remainder_str == strip(line_match.group5)
                   symbol_size_dec == HexVal(line_match.group3)
                   symbol_name == SymbolName(remainder_str)
                   object_file ==
                       final_object_file(ObjectFileForCurrentSymbol(
                           remainder_str, current_object_file_context))
                   key == symbol_key(symbol_name, object_file, symbol_size_dec)
               IN /\ current_object_file_context' =
                         NewContext(remainder_str, current_object_file_context)
                  /\ IF /\ symbol_name # ""
                        /\ ~is_linker_artifact(symbol_size_dec, symbol_name)
                        /\ key \notin added_symbols_set
                     THEN /\ bss_symbols' =
                                 Append(bss_symbols,
                                        NewSymbol(line_match, symbol_name, object_file))
                          /\ added_symbols_set' = RecordKey(added_symbols_set, key)
                     ELSE UNCHANGED <<bss_symbols, added_symbols_set>>
    /\ UNCHANGED <<pc, total_bss_size, in_bss_section, total_padding, previous_end, k>>

\* the file has no more lines: the for loop ends
EndOfFile ==
    /\ pc = "scan"
    /\ IF run = 1 THEN TRUE ELSE lines_read = first_result[1].lines
    /\ pc' = "sort"
    /\ UNCHANGED <<lines_read, total_bss_size, bss_symbols, in_bss_section,
                   current_object_file_context, added_symbols_set,
                   total_padding, previous_end, k, main_vars, rerun_vars>>

(***************************************************************************)
(* After the scan: the stable sort by address and the padding loop.        *)
(***************************************************************************)
\* a variant of InsertByVma that places x before the elements of its address
InsertByVma_BeforeEqual(sorted, x) ==
    LET n == Cardinality({i \in 1..Len(sorted) : sorted[i].vma < x.vma})
    IN SubSeq(sorted, 1, n) \o <<x>> \o SubSeq(sorted, n + 1, Len(sorted))

\* x placed after the elements of the sorted list that do not come after it
InsertByVma(sorted, x) ==
    LET n == Cardinality({i \in 1..Len(sorted) : sorted[i].vma <= x.vma})
    IN SubSeq(sorted, 1, n) \o <<x>> \o SubSeq(sorted, n + 1, Len(sorted))

\* list.sort(key=lambda x: x["vma"]): ascending, equal keys keep their order
RECURSIVE SortByVma(_)
SortByVma(symbols) ==
    IF symbols = <<>> THEN <<>>
    ELSE InsertByVma(SortByVma(SubSeq(symbols, 1, Len(symbols) - 1)),
                     symbols[Len(symbols)])

SortSymbols ==
    /\ pc = "sort"
    /\ bss_symbols' = SortByVma(bss_symbols)
    /\ total_padding' = 0
    /\ previous_end' = None
    /\ k' = 1
    /\ pc' = "pad"
    /\ UNCHANGED <<lines_read, total_bss_size, in_bss_section,
                   current_object_file_context, added_symbols_set,
                   main_vars, rerun_vars>>

\* a variant of PaddingBefore without the test padding > 0
PaddingBefore_Unclamped(current_start, prev_end) ==
    IF prev_end # None THEN current_start - prev_end ELSE 0

\* symbol["padding_before"] of the symbol the loop is at
PaddingBefore(current_start, prev_end) ==
    IF prev_end # None /\ current_start - prev_end > 0
    THEN current_start - prev_end
    ELSE 0

\* a variant of PaddingAdded that adds the difference whatever its sign
PaddingAdded_Unclamped(current_start, prev_end) ==
    IF prev_end # None THEN current_start - prev_end ELSE 0

\* what the iteration adds to total_padding
PaddingAdded(current_start, prev_end) ==
    IF prev_end # None /\ current_start - prev_end > 0
    THEN current_start - prev_end
    ELSE 0

\* one iteration of: for symbol in bss_symbols
PaddingStep ==
    /\ pc = "pad"
    /\ k <= Len(bss_symbols)
    /\ LET symbol == bss_symbols[k]
           current_start == symbol.vma
           current_size == symbol.size_dec
       IN /\ bss_symbols' =
                 [bss_symbols EXCEPT ![k] =
                     [padding_before |-> PaddingBefore(current_start, previous_end)]
                         @@ symbol]
          /\ total_padding' = total_padding + PaddingAdded(current_start, previous_end)
          /\ previous_end' = current_start + current_size
    /\ k' = k + 1
    /\ UNCHANGED <<lines_read, pc, total_bss_size, in_bss_section,
                   current_object_file_context, added_symbols_set,
                   main_vars, rerun_vars>>

\* return bss_symbols, total_bss_size, total_padding
Return ==
    /\ pc = "pad"
    /\ k > Len(bss_symbols)
    /\ pc' = "done"
    /\ UNCHANGED <<lines_read, total_bss_size, bss_symbols, in_bss_section,
                   current_object_file_context, added_symbols_set,
                   total_padding, previous_end, k, main_vars, rerun_vars>>

(***************************************************************************)
(* main after parse_map_file has returned, print_summary and               *)
(* print_symbols.  What is printed is kept as records: the text of the     *)
(* print with its placeholders, and the values put in them.  A percentage  *)
(* is kept as the fraction it is computed from; the layout of the table    *)
(* (column widths, hexadecimal rendering) is left out, but for the         *)
(* division the width computation makes.                                   *)
(***************************************************************************)
parse_locals == <<lines_read, total_bss_size, in_bss_section,
                  current_object_file_context, added_symbols_set,
                  total_padding, previous_end, k>>

\* the values --min is given in the runs considered
MinSizes == {0, 5}

\* a variant of MainNoSymbols with one message for both cases
MainNoSymbols_OneMessage ==
    /\ pc = "done"
    /\ bss_symbols = <<>>
    /\ total_bss_size >= 0
    /\ stdout' = Append(stdout,
          [text |-> "No BSS symbols found and BSS section is empty or not properly parsed."])
    /\ pc' = "end"
    /\ exit_status' = <<0>>
    /\ UNCHANGED <<parse_locals, bss_symbols, exception, stderr, min_size,
                   with_sdk, report, rerun_vars>>

\* if not bss_symbols: one of two messages, and return
MainNoSymbols ==
    /\ pc = "done"
    /\ bss_symbols = <<>>
    /\ total_bss_size >= 0
    /\ IF total_bss_size = 0
       THEN stdout' = Append(stdout,
               [text |-> "No BSS symbols found and BSS section is empty or not properly parsed."])
       ELSE stdout' = stdout \o
               <<[text |-> "BSS section has a total size of {total_bss_size} bytes, but no individual symbols were extracted.",
                  total_bss_size |-> total_bss_size],
                 [text |-> "This might indicate that the symbol parsing patterns need further refinement for your specific map file format."]>>
    /\ pc' = "end"
    /\ exit_status' = <<0>>
    /\ UNCHANGED <<parse_locals, bss_symbols, exception, stderr, min_size,
                   with_sdk, report, rerun_vars>>

\* print_summary(total_bss_size, args.hexa), and the options args.sdk and
\* args.min that the call of print_symbols reads: the command line fixes
\* them, nothing before this point depends on them
PrintSummary ==
    /\ pc = "done"
    /\ bss_symbols # <<>> \/ total_bss_size < 0
    /\ \E m \in MinSizes, sdk \in BOOLEAN :
          /\ min_size' = m
          /\ with_sdk' = sdk
    /\ stdout' = stdout \o
          <<[text |-> "--- BSS Section Summary ---"],
            [text |-> "Total BSS Size: {size_str} Bytes", total_bss_size |-> total_bss_size]>>
    /\ pc' = "widths"
    /\ UNCHANGED <<parse_locals, bss_symbols, exception, stderr, exit_status,
                   report, rerun_vars>>

\* x placed after the elements of the sorted list that are not smaller
InsertBySizeDesc(sorted, x) ==
    LET n == Cardinality({i \in 1..Len(sorted) : sorted[i].size_dec >= x.size_dec})
    IN SubSeq(sorted, 1, n) \o <<x>> \o SubSeq(sorted, n + 1, Len(sorted))

\* list.sort(key=lambda x: x["size_dec"], reverse=True): equal keys keep their order
RECURSIVE SortBySizeDesc(_)
SortBySizeDesc(symbols) ==
    IF symbols = <<>> THEN <<>>
    ELSE InsertBySizeDesc(SortBySizeDesc(SubSeq(symbols, 1, Len(symbols) - 1)),
                          symbols[Len(symbols)])

\* the loop over the symbols that sets the column widths evaluates
\* s['size_dec'] / total_bss_size for each of them: ZeroDivisionError when
\* there is a symbol and total_bss_size is 0
WidthLoopDividesByZero(symbols, total) == symbols # <<>> /\ total = 0

\* print_symbols up to the table header: the sort by size and the widths
PrintSymbolsWidths ==
    /\ pc = "widths"
    /\ bss_symbols' = SortBySizeDesc(bss_symbols)
    /\ IF WidthLoopDividesByZero(bss_symbols, total_bss_size)
       THEN \* nothing catches the exception: traceback, exit status 1
            /\ stdout' = Append(stdout, [text |-> "--- BSS Symbols ---"])
            /\ stderr' = Append(stderr, [text |-> "ZeroDivisionError: division by zero"])
            /\ exit_status' = <<1>>
            /\ pc' = "crashed"
       ELSE /\ stdout' = stdout \o <<[text |-> "--- BSS Symbols ---"],
                                     [text |-> "header_line"]>>
            /\ pc' = "rows"
            /\ UNCHANGED <<stderr, exit_status>>
    /\ UNCHANGED <<parse_locals, exception, min_size, with_sdk, report, rerun_vars>>

\* the two tests of the loop that end in continue
Displayed(symbol, min, sdk) ==
    /\ ~(symbol.size_dec < min)
    /\ ~(~sdk /\ Contains(symbol.object_file, "/obj/sdk/"))

DisplayedSymbols(symbols, min, sdk) ==
    SelectSeq(symbols, LAMBDA symbol : Displayed(symbol, min, sdk))

RECURSIVE SumSizes(_)
SumSizes(symbols) ==
    IF symbols = <<>> THEN 0
    ELSE symbols[1].size_dec + SumSizes(Tail(symbols))

\* a variant of symbol_size that adds a size after the two tests
symbol_size_AfterFilter(symbols, min, sdk) ==
    SumSizes(DisplayedSymbols(symbols, min, sdk))

\* symbol_size when the loop ends: a size is added before the two tests
symbol_size(symbols, min, sdk) == SumSizes(symbols)

\* computed_size and nb_symbols when the loop ends
computed_size(symbols, min, sdk) == SumSizes(DisplayedSymbols(symbols, min, sdk))

nb_symbols(symbols, min, sdk) == Len(DisplayedSymbols(symbols, min, sdk))

\* (part / total) * 100 if total > 0 else 0, as a fraction
Percentage(part, total) ==
    IF total > 0 THEN [num |-> part * 100, den |-> total]
    ELSE [num |-> 0, den |-> 1]

\* the row printed for a symbol that passes the two tests
Row(symbol, total) ==
    [text |-> "row",
     name |-> symbol.name,
     size_dec |-> symbol.size_dec,
     percentage |-> Percentage(symbol.size_dec, total),
     object_file |-> symbol.object_file]

Rows(symbols, min, sdk, total) ==
    LET shown == DisplayedSymbols(symbols, min, sdk)
    IN [i \in 1..Len(shown) |-> Row(shown[i], total)]

\* the lines printed after the table
Totals(symbols, min, sdk, total, padding) ==
    LET all_size == symbol_size(symbols, min, sdk)
        remaining_diff == total - (all_size + padding)
        padding_size == total - all_size
    IN (IF min # 0 \/ ~sdk
        THEN <<[text |-> "Total BSS Symbols found: {nb_symbols} / {len(bss_symbols)}",
                nb_symbols |-> nb_symbols(symbols, min, sdk),
                len |-> Len(symbols)],
               [text |-> "Total accumulated size: {computed_size} / {symbol_size} Bytes",
                computed_size |-> computed_size(symbols, min, sdk),
                symbol_size |-> all_size]>>
        ELSE <<[text |-> "Total BSS Symbols found: {nb_symbols}",
                nb_symbols |-> nb_symbols(symbols, min, sdk)],
               [text |-> "Total accumulated size: {symbol_size} Bytes",
                symbol_size |-> all_size]>>)
       \o <<[text |-> "Total explicit padding: {total_padding} Bytes",
             total_padding |-> padding]>>
       \o (IF remaining_diff > 0
           THEN <<[text |-> "Additional unaccounted space: {remaining_diff} Bytes",
                   remaining_diff |-> remaining_diff]>>
           ELSE <<>>)
       \o <<[text |-> "Alignment padding: {padding_str} Bytes ({padding_percentage:.2f}%)",
             padding_size |-> padding_size,
             padding_percentage |-> Percentage(padding_size, total)],
            [text |-> "Total BSS size: {total_bss_size} Bytes",
             total_bss_size |-> total]>>

\* print_symbols from the table header to its end; main returns after it
PrintSymbolsRows ==
    /\ pc = "rows"
    /\ stdout' = stdout
                 \o Rows(bss_symbols, min_size, with_sdk, total_bss_size)
                 \o Totals(bss_symbols, min_size, with_sdk, total_bss_size, total_padding)
    /\ report' = <<[nb_symbols |-> nb_symbols(bss_symbols, min_size, with_sdk),
                    symbol_size |-> symbol_size(bss_symbols, min_size, with_sdk),
                    computed_size |-> computed_size(bss_symbols, min_size, with_sdk),
                    remaining_diff |-> total_bss_size
                        - (symbol_size(bss_symbols, min_size, with_sdk) + total_padding),
                    padding_size |-> total_bss_size
                        - symbol_size(bss_symbols, min_size, with_sdk)]>>
    /\ pc' = "end"
    /\ exit_status' = <<0>>
    /\ UNCHANGED <<parse_locals, bss_symbols, exception, stderr, min_size,
                   with_sdk, rerun_vars>>

(***************************************************************************)
(* The two except clauses of parse_map_file.                               *)
(***************************************************************************)
\* what open() raises when it fails
OpenErrors == {"FileNotFoundError", "IsADirectoryError"}

\* what reading a line raises when it fails
ReadErrors == {"UnicodeDecodeError"}

\* the message printed to sys.stderr for the exception
Diagnostic(e) ==
    IF e = "FileNotFoundError"
    THEN [text |-> "Error: Map file '{map_file_path}' not found."]
    ELSE [text |-> "An unexpected error occurred while parsing the map file: {e}",
          e |-> e]

\* open() raises: the except clause prints and calls sys.exit(1)
OpenFails ==
    /\ pc = "open"
    /\ \E e \in OpenErrors :
          /\ exception' = e
          /\ stderr' = Append(stderr, Diagnostic(e))
    /\ exit_status' = <<1>>
    /\ pc' = "exited"
    /\ UNCHANGED <<parse_locals, bss_symbols, stdout, min_size, with_sdk,
                   report, rerun_vars>>

\* a variant of ReadFails whose except clause prints and does not exit
ReadFails_NoExit ==
    /\ pc = "scan"
    /\ \E e \in ReadErrors :
          /\ exception' = e
          /\ stderr' = Append(stderr, Diagnostic(e))
    /\ pc' = "sort"
    /\ UNCHANGED <<parse_locals, bss_symbols, stdout, exit_status, min_size,
                   with_sdk, report, rerun_vars>>

\* for line in f raises: except Exception prints and calls sys.exit(1)
ReadFails ==
    /\ pc = "scan"
    /\ \E e \in ReadErrors :
          /\ exception' = e
          /\ stderr' = Append(stderr, Diagnostic(e))
    /\ exit_status' = <<1>>
    /\ pc' = "exited"
    /\ UNCHANGED <<parse_locals, bss_symbols, stdout, min_size, with_sdk,
                   report, rerun_vars>>

Next ==
    \/ OpenFile
    \/ \E line \in MapLines : SkipEmptyLine(line)
    \/ \E line \in MapLines : SearchHeader(line)
    \/ \E line \in MapLines : ExitSection(line)
    \/ \E line \in MapLines : ParseLine(line)
    \/ EndOfFile
    \/ SortSymbols
    \/ PaddingStep
    \/ Return
    \/ OpenFails
    \/ ReadFails
    \/ MainNoSymbols
    \/ PrintSummary
    \/ PrintSymbolsWidths
    \/ PrintSymbolsRows

Spec == Init /\ [][Next]_vars

(***************************************************************************)
(* Two calls of parse_map_file on the same file, one after the other in    *)
(* the same process.                                                       *)
(***************************************************************************)
\* what the first call returned, and the lines it had read
Returned ==
    [lines |-> lines_read,
     bss_symbols |-> bss_symbols,
     total_bss_size |-> total_bss_size,
     total_padding |-> total_padding]

\* a variant of ParseAgain where the set of keys outlives the call
ParseAgain_KeepsSet ==
    /\ pc = "done"
    /\ run = 1
    /\ first_result' = <<Returned>>
    /\ run' = 2
    /\ lines_read' = <<>>
    /\ pc' = "open"
    /\ total_bss_size' = 0
    /\ bss_symbols' = <<>>
    /\ in_bss_section' = FALSE
    /\ current_object_file_context' = "unknown"
    /\ total_padding' = 0
    /\ previous_end' = None
    /\ k' = 1
    /\ UNCHANGED <<added_symbols_set, main_vars>>

\* the second call starts: its locals are new, the file is read from its
\* first line
ParseAgain ==
    /\ pc = "done"
    /\ run = 1
    /\ first_result' = <<Returned>>
    /\ run' = 2
    /\ lines_read' = <<>>
    /\ pc' = "open"
    /\ total_bss_size' = 0
    /\ bss_symbols' = <<>>
    /\ in_bss_section' = FALSE
    /\ current_object_file_context' = "unknown"
    /\ added_symbols_set' = {}
    /\ total_padding' = 0
    /\ previous_end' = None
    /\ k' = 1
    /\ UNCHANGED main_vars

NextTwice ==
    \/ OpenFile
    \/ \E line \in MapLines : SkipEmptyLine(line)
    \/ \E line \in MapLines : SearchHeader(line)
    \/ \E line \in MapLines : ExitSection(line)
    \/ \E line \in MapLines : ParseLine(line)
    \/ EndOfFile
    \/ SortSymbols
    \/ PaddingStep
    \/ Return
    \/ ParseAgain

SpecTwice == Init /\ [][NextTwice]_vars

(***************************************************************************)
(* Properties.  The history lines_read tells, without the parser's own     *)
(* mode variable, where the parse stands.                                  *)
(***************************************************************************)
\* the lines of a history that match the .bss header pattern
HeaderLinesOf(history) ==
    {i \in 1..Len(history) : bss_header_pattern(strip(history[i])).ok}

HeaderLines == HeaderLinesOf(lines_read)

\* the base fields of the recorded symbols, whatever their order and padding
SymbolFacts(symbols) ==
    {<<symbols[i].name, symbols[i].object_file, symbols[i].size_dec, symbols[i].vma>> :
        i \in 1..Len(symbols)}

\* the line the step takes from the file
LineTaken == lines_read' # lines_read
TakenLine == lines_read'[Len(lines_read')]

\* C1: as long as no line read matches the .bss header pattern the parser is
\* not inside BSS, total_bss_size is 0 and the symbol list is empty, whatever
\* the lines are; so it returns 0 and no symbols.
C1_HeaderPriming ==
    HeaderLines = {} =>
        /\ ~in_bss_section
        /\ total_bss_size = 0
        /\ bss_symbols = <<>>

\* a whole parse of a file without header whose lines would be symbols inside BSS
C1_Witness ==
    /\ pc = "done"
    /\ lines_read = <<ObjectSymbolLine, PlainSymbolLine, ZeroSizeLine>>
    /\ bss_symbols = <<>>
    /\ total_bss_size = 0

\* the lines of a history that come after a header and meet an exit condition
ExitLinesOf(history) ==
    {i \in 1..Len(history) :
        /\ \E h \in HeaderLinesOf(history) : h < i
        /\ strip(history[i]) # ""
        /\ LeavesBss(strip(history[i]))}

\* C2: a step that reads a line meeting one of the exit conditions inside BSS,
\* and every step after it, adds no symbol; and no line is read after that line.
C2_ExitImmediacy ==
    [][ExitLinesOf(lines_read') # {} =>
          /\ SymbolFacts(bss_symbols') = SymbolFacts(bss_symbols)
          /\ Len(bss_symbols') = Len(bss_symbols)
          /\ ExitLinesOf(lines_read) # {} => lines_read' = lines_read]_vars

\* a parse that recorded a symbol, met an exit line and returned
C2_Witness ==
    /\ pc = "done"
    /\ lines_read = <<BssHeaderLine, ObjectSymbolLine, TextHeaderLine>>
    /\ Len(bss_symbols) = 1

\* C3: no two symbols of the list share (name, object_file, size).
C3_Uniqueness ==
    \A i, j \in 1..Len(bss_symbols) :
        /\ bss_symbols[i].name = bss_symbols[j].name
        /\ bss_symbols[i].object_file = bss_symbols[j].object_file
        /\ bss_symbols[i].size_dec = bss_symbols[j].size_dec
        => i = j

\* Scenario C: the echo of G_x with the same object file and size is dropped
C3_Witness ==
    /\ pc = "done"
    /\ lines_read = <<BssHeaderLine, ObjectSymbolLine, EchoSymbolLine>>
    /\ Len(bss_symbols) = 1
    /\ bss_symbols[1].name = "G_x"

\* the remainder of an address/size record, "" when the line is no record
RecordRemainder(line) ==
    LET line_match == line_parser_pattern(strip(line))
    IN IF line_match.ok THEN strip(line_match.group5) ELSE ""

\* the path of a record in object-file/section form whose path ends with an
\* object file extension, "" for every other line
QualifyingPath(line) ==
    LET obj == obj_file_and_section_content_pattern(RecordRemainder(line))
    IN IF obj.ok /\ IsObjectFilePath(strip(obj.group1)) THEN strip(obj.group1) ELSE ""

\* the sticky context a history leaves: the path of the last line after the
\* header that has a qualifying path
StickyContextOf(history) ==
    LET Q == {i \in 1..Len(history) :
                /\ \E h \in HeaderLinesOf(history) : h < i
                /\ QualifyingPath(history[i]) # ""}
    IN IF Q = {} THEN "unknown"
       ELSE QualifyingPath(history[CHOOSE i \in Q : \A j \in Q : j <= i])

\* C4: a symbol is recorded with the sticky context of the lines read up to
\* and including its own line; a line read before the header, and a line
\* without qualifying path (plain symbols, object-file lines with another
\* path), leaves the context as it is.
C4_StickyContext ==
    [][/\ Len(bss_symbols') = Len(bss_symbols) + 1 =>
            /\ bss_symbols'[Len(bss_symbols')].object_file = StickyContextOf(lines_read')
            /\ current_object_file_context' = StickyContextOf(lines_read')
       /\ (LineTaken /\ (HeaderLinesOf(lines_read) = {} \/ QualifyingPath(TakenLine) = "")) =>
            current_object_file_context' = current_object_file_context]_vars

\* Scenario B: G_y, a plain symbol, carries the object file of the line before it
C4_Witness ==
    /\ pc = "done"
    /\ lines_read = <<BssHeaderLine, ObjectSymbolLine, PlainSymbolLine>>
    /\ Len(bss_symbols) = 2
    /\ bss_symbols[1].name = "G_x" /\ bss_symbols[1].object_file = "build/obj/app/foo.o"
    /\ bss_symbols[2].name = "G_y" /\ bss_symbols[2].object_file = "build/obj/app/foo.o"

\* a line in section-header shape whose section name is DEBUG
IsDebugHeader(line) ==
    LET p == HeaderPrefix(strip(line))
    IN p.ok /\ SubSeq(strip(line), p.name, Len(strip(line))) = "DEBUG"

\* C5: inside BSS a DEBUG section header ends the scan: the step that reads it
\* records no symbol and no later line is read.
C5_DebugHeaderExits ==
    [][(LineTaken /\ in_bss_section /\ IsDebugHeader(TakenLine)) =>
            /\ pc' # "scan"
            /\ bss_symbols' = bss_symbols]_vars

\* a dot followed by a word character
HasDottedTag(s) == \E i \in 1..Len(s) : Ch(s, i) = "." /\ Ch(s, i + 1) \in WordChars

\* C6: inside BSS a line with a dotted tag and without .bss ends the scan: the
\* step that reads it records no symbol, keeps the sticky context and no later
\* line is read.
C6_DottedTagExits ==
    [][(/\ LineTaken
        /\ in_bss_section
        /\ HasDottedTag(strip(TakenLine))
        /\ ~Contains(strip(TakenLine), ".bss")) =>
            /\ pc' # "scan"
            /\ bss_symbols' = bss_symbols
            /\ current_object_file_context' = current_object_file_context]_vars

Max0(x) == IF x > 0 THEN x ELSE 0

\* C7: the returned list is in ascending address order, its first symbol has
\* padding_before 0 and every later one max(0, address - end of the symbol
\* before it); no padding_before is negative.
C7_PaddingBefore ==
    pc = "done" =>
        \A i \in 1..Len(bss_symbols) :
            /\ i > 1 => bss_symbols[i - 1].vma <= bss_symbols[i].vma
            /\ bss_symbols[i].padding_before =
                  IF i = 1 THEN 0
                  ELSE Max0(bss_symbols[i].vma
                            - (bss_symbols[i - 1].vma + bss_symbols[i - 1].size_dec))
            /\ bss_symbols[i].padding_before >= 0

\* G_w starts at 0x102, inside G_x (0x100, 4 bytes): the difference is negative
C7_Witness ==
    /\ pc = "done"
    /\ lines_read = <<BssHeaderLine, SdkSymbolLine, ObjectSymbolLine>>
    /\ Len(bss_symbols) = 2
    /\ bss_symbols[1].name = "G_x"
    /\ bss_symbols[2].vma < bss_symbols[1].vma + bss_symbols[1].size_dec
    /\ bss_symbols[2].padding_before = 0

RECURSIVE SumPaddingBefore(_, _)
SumPaddingBefore(symbols, n) ==
    IF n = 0 THEN 0 ELSE SumPaddingBefore(symbols, n - 1) + symbols[n].padding_before

\* C8: total_padding is the sum of padding_before over the symbols the
\* padding loop has passed; on return, over the whole list.
C8_TotalPadding ==
    /\ pc = "pad" => total_padding = SumPaddingBefore(bss_symbols, k - 1)
    /\ pc = "done" => total_padding = SumPaddingBefore(bss_symbols, Len(bss_symbols))

\* Scenario D: 0x100 + 4 to 0x108 leaves 4 bytes
C8_Witness ==
    /\ pc = "done"
    /\ lines_read = <<BssHeaderLine, ObjectSymbolLine, PlainSymbolLine>>
    /\ bss_symbols[2].padding_before = 4
    /\ total_padding = 4

\* C9: total_bss_size is the value of the size field of the first header
\* line (0x7480 = 29824 for Scenario A's), it changes in no step but the one
\* that reads that line, and the parser leaves the inside-BSS mode only by
\* leaving the scan.
C9_SizeSetOnce ==
    /\ [](HeaderLines # {} =>
            LET first == lines_read[CHOOSE h \in HeaderLines : \A g \in HeaderLines : h <= g]
            IN /\ total_bss_size = HexVal(bss_header_pattern(strip(first)).group1)
               /\ first = BssHeaderLine => total_bss_size = 29824
               /\ first = EmptyBssHeaderLine => total_bss_size = 0)
    /\ [][/\ total_bss_size' # total_bss_size =>
               HeaderLinesOf(lines_read) = {} /\ HeaderLinesOf(lines_read') # {}
          /\ (in_bss_section /\ ~in_bss_section') => pc' # "scan"]_vars

\* a second header with another size, read inside BSS, changes nothing
C9_Witness ==
    /\ pc = "done"
    /\ lines_read = <<BssHeaderLine, EmptyBssHeaderLine, PlainSymbolLine>>
    /\ total_bss_size = 29824
    /\ Len(bss_symbols) = 1

LinkerArtifactNames == {"_bss", "_ebss"}

\* C10: no recorded symbol has size 0 and the name _bss or _ebss; a record
\* of size 0 with such a name adds nothing, one with another name is added
\* unless its (name, object_file, size) is recorded already.
C10_LinkerArtifacts ==
    /\ [](\A i \in 1..Len(bss_symbols) :
            ~(bss_symbols[i].size_dec = 0 /\ bss_symbols[i].name \in LinkerArtifactNames))
    /\ [][(/\ LineTaken
           /\ in_bss_section
           /\ strip(TakenLine) # ""
           /\ ~LeavesBss(strip(TakenLine))
           /\ line_parser_pattern(strip(TakenLine)).ok
           /\ HexVal(line_parser_pattern(strip(TakenLine)).group3) = 0
           /\ SymbolName(RecordRemainder(TakenLine)) # "") =>
              LET name == SymbolName(RecordRemainder(TakenLine))
                  object_file == StickyContextOf(lines_read')
                  recorded == \E i \in 1..Len(bss_symbols) :
                                 /\ bss_symbols[i].name = name
                                 /\ bss_symbols[i].object_file = object_file
                                 /\ bss_symbols[i].size_dec = 0
              IN IF name \in LinkerArtifactNames \/ recorded
                 THEN bss_symbols' = bss_symbols
                 ELSE /\ Len(bss_symbols') = Len(bss_symbols) + 1
                      /\ SubSeq(bss_symbols', 1, Len(bss_symbols)) = bss_symbols
                      /\ bss_symbols'[Len(bss_symbols')].name = name
                      /\ bss_symbols'[Len(bss_symbols')].size_dec = 0]_vars

\* the zero-size _bss is dropped, the zero-size G_z is recorded
C10_Witness ==
    /\ pc = "done"
    /\ lines_read = <<BssHeaderLine, BssArtifactLine, ZeroSizeLine>>
    /\ Len(bss_symbols) = 1
    /\ bss_symbols[1].name = "G_z"
    /\ bss_symbols[1].size_dec = 0

(***************************************************************************)
(* The report of main.                                                     *)
(***************************************************************************)
\* C11: with total_bss_size 0 the report of main does not end in a division
\* by zero.
C11_ZeroSizeReport == total_bss_size = 0 => pc # "crashed"

\* C12: once opening or reading the file has failed, parse_map_file has
\* written one diagnostic to stderr and the process has exited with status 1:
\* it has not returned, so nothing was sorted, padded or printed by main.
C12_FailureExits ==
    exception # "" =>
        /\ pc = "exited"
        /\ exit_status = <<1>>
        /\ stderr = <<Diagnostic(exception)>>
        /\ stdout = <<>>
        /\ report = <<>>
        /\ \A i \in 1..Len(bss_symbols) : "padding_before" \notin DOMAIN bss_symbols[i]

\* a read failure after two symbols were collected
C12_Witness ==
    /\ exception = "UnicodeDecodeError"
    /\ pc = "exited"
    /\ Len(bss_symbols) = 2
    /\ exit_status = <<1>>

\* the texts that open print_summary and print_symbols
ReportHeaders == {"--- BSS Section Summary ---", "--- BSS Symbols ---"}

\* C13: with an empty list and total_bss_size > 0 main prints the two lines
\* of the format-mismatch message, which is not the message for total 0, and
\* returns; with an empty list neither print_summary nor print_symbols
\* prints, and print_symbols runs on a non-empty list only.
C13_FormatMismatch ==
    /\ (pc = "end" /\ bss_symbols = <<>> /\ total_bss_size > 0) =>
          /\ Len(stdout) = 2
          /\ stdout[1].text = "BSS section has a total size of {total_bss_size} bytes, but no individual symbols were extracted."
          /\ stdout[1].total_bss_size = total_bss_size
          /\ stdout[2].text = "This might indicate that the symbol parsing patterns need further refinement for your specific map file format."
          /\ exit_status = <<0>>
    /\ (pc = "end" /\ bss_symbols = <<>> /\ total_bss_size = 0) =>
          /\ Len(stdout) = 1
          /\ stdout[1].text = "No BSS symbols found and BSS section is empty or not properly parsed."
    /\ bss_symbols = <<>> =>
          /\ pc \notin {"widths", "rows", "crashed"}
          /\ \A i \in 1..Len(stdout) : stdout[i].text \notin ReportHeaders

\* a file with a header of size 0x7480 and no symbol line
C13_Witness ==
    /\ pc = "end"
    /\ bss_symbols = <<>>
    /\ total_bss_size = 29824
    /\ Len(stdout) = 2

\* the sum of the sizes of the first n symbols
RECURSIVE SizeOfFirst(_, _)
SizeOfFirst(symbols, n) ==
    IF n = 0 THEN 0 ELSE SizeOfFirst(symbols, n - 1) + symbols[n].size_dec

\* the symbols of the list that pass the size and SDK tests
ShownIndexes ==
    {i \in 1..Len(bss_symbols) :
        /\ bss_symbols[i].size_dec >= min_size
        /\ with_sdk \/ ~Contains(bss_symbols[i].object_file, "/obj/sdk/")}

\* C14: whatever min_size and with_sdk are, the size total of print_symbols
\* is the sum of the sizes of all symbols, and the unaccounted space and the
\* alignment padding are computed and printed from it; the displayed count
\* is the number of symbols passing the tests.
C14_FiltersKeepTotals ==
    report # <<>> =>
        LET all_size == SizeOfFirst(bss_symbols, Len(bss_symbols))
        IN /\ report[1].symbol_size = all_size
           /\ report[1].remaining_diff = total_bss_size - (all_size + total_padding)
           /\ report[1].padding_size = total_bss_size - all_size
           /\ report[1].nb_symbols = Cardinality(ShownIndexes)
           /\ report[1].computed_size <= all_size
           /\ \E i \in 1..Len(stdout) :
                 /\ stdout[i].text = "Alignment padding: {padding_str} Bytes ({padding_percentage:.2f}%)"
                 /\ stdout[i].padding_size = total_bss_size - all_size
           /\ \A i \in 1..Len(stdout) :
                 stdout[i].text = "Additional unaccounted space: {remaining_diff} Bytes" =>
                     stdout[i].remaining_diff = total_bss_size - (all_size + total_padding)
           /\ (total_bss_size - (all_size + total_padding) > 0) =>
                 \E i \in 1..Len(stdout) :
                     stdout[i].text = "Additional unaccounted space: {remaining_diff} Bytes"

\* --min 5 hides G_x (4 bytes) of G_x and G_y: 1 of 2 symbols, 8 of 12 bytes
C14_Witness ==
    /\ report # <<>>
    /\ min_size = 5
    /\ Len(bss_symbols) = 2
    /\ report[1].nb_symbols = 1
    /\ report[1].computed_size = 8
    /\ report[1].symbol_size = 12

LastRecord(history) == line_parser_pattern(strip(history[Len(history)]))

\* the triple the last line of a history yields
LastTriple(history) ==
    <<SymbolName(RecordRemainder(history[Len(history)])),
      StickyContextOf(history),
      HexVal(LastRecord(history).group3)>>

\* the last line of a history yields a symbol: it is a record read inside
\* BSS that does not end the scan, has a name and is no linker artifact
LastYields(history) ==
    /\ history # <<>>
    /\ HeaderLinesOf(SubSeq(history, 1, Len(history) - 1)) # {}
    /\ ExitLinesOf(history) = {}
    /\ LastRecord(history).ok
    /\ SymbolName(RecordRemainder(history[Len(history)])) # ""
    /\ ~is_linker_artifact(HexVal(LastRecord(history).group3),
                           SymbolName(RecordRemainder(history[Len(history)])))

TripleOfSymbol(symbol) == <<symbol.name, symbol.object_file, symbol.size_dec>>

\* the position of a symbol in a list that holds it
PositionIn(symbols, symbol) ==
    CHOOSE i \in 1..Len(symbols) : symbols[i] = symbol

\* C16: a step that reads a line yielding a triple already in the dedup set
\* changes neither the list nor the set; one yielding a new triple appends
\* the symbol with the address of that line and adds the triple; no other
\* step of the scan touches them, and the padding loop keeps every symbol's
\* place, triple and address: a symbol keeps the address of the earliest
\* line of its triple and the list is in first-seen order.  The sort keeps
\* the symbols and puts them in address order, symbols with equal addresses
\* in the order they had, which is first-seen order.
C16_FirstSeenWins ==
    [][/\ (LineTaken /\ LastYields(lines_read')) =>
             IF LastTriple(lines_read') \in added_symbols_set
             THEN /\ bss_symbols' = bss_symbols
                  /\ added_symbols_set' = added_symbols_set
             ELSE /\ Len(bss_symbols') = Len(bss_symbols) + 1
                  /\ SubSeq(bss_symbols', 1, Len(bss_symbols)) = bss_symbols
                  /\ TripleOfSymbol(bss_symbols'[Len(bss_symbols')])
                        = LastTriple(lines_read')
                  /\ bss_symbols'[Len(bss_symbols')].vma
                        = HexVal(LastRecord(lines_read').group1)
                  /\ added_symbols_set'
                        = added_symbols_set \cup {LastTriple(lines_read')}
       /\ (pc = "scan" /\ ~(LineTaken /\ LastYields(lines_read'))) =>
             /\ bss_symbols' = bss_symbols
             /\ added_symbols_set' = added_symbols_set
       /\ pc = "pad" =>
             /\ added_symbols_set' = added_symbols_set
             /\ Len(bss_symbols') = Len(bss_symbols)
             /\ \A n \in 1..Len(bss_symbols) :
                   /\ TripleOfSymbol(bss_symbols'[n]) = TripleOfSymbol(bss_symbols[n])
                   /\ bss_symbols'[n].vma = bss_symbols[n].vma
       /\ pc = "sort" =>
             /\ added_symbols_set' = added_symbols_set
             /\ Len(bss_symbols') = Len(bss_symbols)
             /\ \A n \in 1..Len(bss_symbols') :
                   \E m \in 1..Len(bss_symbols) : bss_symbols'[n] = bss_symbols[m]
             /\ \A m, n \in 1..Len(bss_symbols') :
                   m < n =>
                      \/ bss_symbols'[m].vma < bss_symbols'[n].vma
                      \/ /\ bss_symbols'[m].vma = bss_symbols'[n].vma
                         /\ PositionIn(bss_symbols, bss_symbols'[m])
                               < PositionIn(bss_symbols, bss_symbols'[n])]_vars

\* Scenario C returned: G_x is kept once, with the address 0x100 of its first
\* line and not 0x104 of the second
C16_Witness ==
    /\ pc = "done"
    /\ lines_read = <<BssHeaderLine, ObjectSymbolLine, EchoSymbolLine>>
    /\ Len(bss_symbols) = 1
    /\ bss_symbols[1].vma = 256
    /\ added_symbols_set = {<<"G_x", "build/obj/app/foo.o", 4>>}

\* C17: for a non-empty returned list, the sizes plus total_padding are at
\* least the span from the first address to the end of the last symbol of
\* the list, and equal to it exactly when every symbol starts at or after
\* the end of the symbol before it.
C17_SpanCovered ==
    (pc = "done" /\ bss_symbols # <<>>) =>
        LET n == Len(bss_symbols)
            accounted == SizeOfFirst(bss_symbols, n) + total_padding
            span == bss_symbols[n].vma + bss_symbols[n].size_dec - bss_symbols[1].vma
            contiguous ==
                \A i \in 2..n :
                    bss_symbols[i].vma >=
                        bss_symbols[i - 1].vma + bss_symbols[i - 1].size_dec
        IN /\ accounted >= span
           /\ (accounted = span) <=> contiguous

\* G_w at 0x102 starts inside G_x (0x100, 4 bytes): 12 bytes for a span of 10
C17_Witness ==
    /\ pc = "done"
    /\ lines_read = <<BssHeaderLine, ObjectSymbolLine, SdkSymbolLine>>
    /\ Len(bss_symbols) = 2
    /\ total_padding = 0
    /\ bss_symbols[2].vma + bss_symbols[2].size_dec - bss_symbols[1].vma = 10

====
